---- MODULE Spec2Model ----
(***************************************************************************)
(* Model of src/integration.rs: the boot-test harness of the hypervisor    *)
(* firmware.  One test case (test_boot) runs at a time per test thread;    *)
(* its position is pc, its locals are the variables below.  Strings are    *)
(* sequences of one-character strings so that formatting is computed.      *)
(***************************************************************************)
EXTENDS Integers, Sequences, FiniteSets, TLC

VARIABLES COUNTER,     \* static COUNTER: AtomicUsize
          issued,      \* history: value drawn from COUNTER -> identity built from it
          pc,          \* position of the test case inside test_boot
          test,        \* the #[test] being run: image_name, cloud_init, spawn
          tmp_dir,     \* "none" | "exists" | "removed"
          net,         \* GuestNetworkConfig of the test case
          rnd,         \* history: the six random bytes drawn for the MAC
          ci,          \* seed image path returned by CloudInit::prepare
          os,          \* path returned by prepare_os_disk
          mcopy_left,  \* mcopy invocations still to run in prepare
          tool_failed, \* history: mkdosfs or mcopy exited non-zero in this test case
          tap,         \* host interface of this test case: "absent" | "created" | "addressed" | "up" | "deleted"
          child,       \* VMM process: "none" | "running" | "killed" | "reaped"
          vmm,         \* command line the VMM was spawned with
          reachable,   \* environment: the guest's port 22 ever accepts connections
          counter,     \* ssh_command: let mut counter (u8)
          s,           \* ssh_command: let mut s (attempts whose output was read into it)
          attempts,    \* history: closure invocations in this ssh_command call
          failures,    \* history: closure invocations that returned Err
          last_fail,   \* history: step at which the latest failed attempt failed
          ssh_result,  \* value returned by ssh_command
          panic,       \* panic that ended the test case
          log,         \* history: externally visible events of this test case, in order
          fn_in,       \* arguments of a function applied on its own (SpecNew)
          fn_out,      \* its result
          sub_in,      \* template text and identity given to the substitution (SpecSub)
          sub_out      \* the substituted text

vars == <<COUNTER, issued, pc, test, tmp_dir, net, rnd, ci, os, mcopy_left,
          tool_failed, tap, child, vmm, reachable, counter, s, attempts,
          failures, last_fail, ssh_result, panic, log, fn_in, fn_out,
          sub_in, sub_out>>

\* the variables of the test case and of the process
boot_vars == <<COUNTER, issued, pc, test, tmp_dir, net, rnd, ci, os, mcopy_left,
               tool_failed, tap, child, vmm, reachable, counter, s, attempts,
               failures, last_fail, ssh_result, panic, log>>

----------------------------------------------------------------------------
(* Bounds *)

\* test_boot invocations explored by Spec
MaxRuns == 2
\* test_boot invocations explored by SpecId (enough for the u8 narrowing to repeat)
MaxDraws == 258
\* pieces a template text of SpecSub is made of
MaxPieces == 3

----------------------------------------------------------------------------
(* Formatting *)

DecDigits == <<"0", "1", "2", "3", "4", "5", "6", "7", "8", "9">>
HexDigits == <<"0", "1", "2", "3", "4", "5", "6", "7", "8", "9",
               "a", "b", "c", "d", "e", "f">>

\* format!("{}", n) for a u8
FmtDec(n) ==
    IF n < 10 THEN <<DecDigits[n + 1]>>
    ELSE IF n < 100 THEN <<DecDigits[(n \div 10) + 1], DecDigits[(n % 10) + 1]>>
    ELSE <<DecDigits[(n \div 100) + 1], DecDigits[((n \div 10) % 10) + 1],
           DecDigits[(n % 10) + 1]>>

\* format!("{:02x}", b) for a u8
FmtHex02(b) == <<HexDigits[(b \div 16) + 1], HexDigits[(b % 16) + 1]>>

\* a narrowing that keeps seven bits only
AsU7(x) == x % 128

\* `as u8` applied to a usize
AsU8(x) == x % 256

----------------------------------------------------------------------------
(* GuestNetworkConfig *)

Prefix192168 == <<"1", "9", "2", ".", "1", "6", "8", ".">>
PrefixFwtap == <<"f", "w", "t", "a", "p">>

NoNet == [guest_mac |-> <<>>, host_ip |-> <<>>, guest_ip |-> <<>>, tap_name |-> <<>>]

\* sets the locally-administered bit of the random first byte and keeps the rest
ForceOuiOrBit(m) == [m EXCEPT ![1] = IF (m[1] \div 2) % 2 = 1 THEN m[1] ELSE m[1] + 2]

\* m[0] = 0x2e  (Rust index 0 is index 1 here)
ForceOui(m) == [m EXCEPT ![1] = 46]

FmtMac(m) ==
    FmtHex02(m[1]) \o <<":">> \o FmtHex02(m[2]) \o <<":">> \o FmtHex02(m[3]) \o <<":">>
    \o FmtHex02(m[4]) \o <<":">> \o FmtHex02(m[5]) \o <<":">> \o FmtHex02(m[6])

\* GuestNetworkConfig::new(counter) with m the bytes gen::<[u8; 6]>() returned
GuestNetworkConfigNew(c, m) ==
    [guest_mac |-> FmtMac(ForceOui(m)),
     host_ip   |-> Prefix192168 \o FmtDec(c) \o <<".", "1">>,
     guest_ip  |-> Prefix192168 \o FmtDec(c) \o <<".", "2">>,
     tap_name  |-> PrefixFwtap \o FmtDec(c)]

----------------------------------------------------------------------------
(* Placeholder substitution of the seeders *)

\* "192.168.2.1"
HostIpPlaceholder == <<"1", "9", "2", ".", "1", "6", "8", ".", "2", ".", "1">>
\* "192.168.2.2"
GuestIpPlaceholder == <<"1", "9", "2", ".", "1", "6", "8", ".", "2", ".", "2">>
\* "12:34:56:78:90:ab"
MacPlaceholder == <<"1", "2", ":", "3", "4", ":", "5", "6", ":", "7", "8", ":",
                    "9", "0", ":", "a", "b">>

\* pat occurs in text at position i
MatchesAt(text, i, pat) ==
    /\ i + Len(pat) - 1 <= Len(text)
    /\ SubSeq(text, i, i + Len(pat) - 1) = pat

\* str::replace from position i on: matches are taken left to right and do
\* not overlap
RECURSIVE ReplaceFrom(_, _, _, _)
ReplaceFrom(text, i, from, to) ==
    IF i > Len(text) THEN <<>>
    ELSE IF MatchesAt(text, i, from)
         THEN to \o ReplaceFrom(text, i + Len(from), from, to)
         ELSE <<text[i]>> \o ReplaceFrom(text, i + 1, from, to)

\* str::replacen(from, to, 1): only the first match is replaced
ReplaceFirst(text, from, to) ==
    IF \E i \in 1..Len(text) : MatchesAt(text, i, from)
    THEN LET i == CHOOSE k \in 1..Len(text) :
                      MatchesAt(text, k, from)
                      /\ \A j \in 1..(k - 1) : ~MatchesAt(text, j, from)
         IN SubSeq(text, 1, i - 1) \o to \o SubSeq(text, i + Len(from), Len(text))
    ELSE text

\* str::replace(from, to)
Replace(text, from, to) == ReplaceFrom(text, 1, from, to)

\* the three replacements of lines 95-98 and 148-151
Substitute(text, network) ==
    Replace(Replace(Replace(text, HostIpPlaceholder, network.host_ip),
                    GuestIpPlaceholder, network.guest_ip),
            MacPlaceholder, network.guest_mac)

----------------------------------------------------------------------------
(* The #[test] functions *)

BIONIC_IMAGE_NAME == "bionic-server-cloudimg-amd64-raw.img"
FOCAL_IMAGE_NAME == "focal-server-cloudimg-amd64-raw.img"
CLEAR_IMAGE_NAME == "clear-31311-cloudguest.img"

Tests ==
    { [image_name |-> BIONIC_IMAGE_NAME, cloud_init |-> "Ubuntu", spawn |-> "qemu"],
      [image_name |-> CLEAR_IMAGE_NAME,  cloud_init |-> "Clear",  spawn |-> "qemu"],
      [image_name |-> BIONIC_IMAGE_NAME, cloud_init |-> "Ubuntu", spawn |-> "ch"],
      [image_name |-> FOCAL_IMAGE_NAME,  cloud_init |-> "Ubuntu", spawn |-> "ch"],
      [image_name |-> CLEAR_IMAGE_NAME,  cloud_init |-> "Clear",  spawn |-> "ch"] }

NoTest == [image_name |-> "", cloud_init |-> "", spawn |-> ""]

\* Paths are sequences of components
TmpDirPath == <<"tmp", "rhfw">>
HomeDir == <<"home">>
NoPath == <<>>

\* tmp_dir.path().join("cloudinit")
CloudinitFilePath == TmpDirPath \o <<"cloudinit">>
\* home_dir().join("workloads").join(image_name)
SrcOsdisk(image_name) == HomeDir \o <<"workloads", image_name>>
\* tmp_dir.path().join(image_name)
DestOsdisk(image_name) == TmpDirPath \o <<image_name>>

\* number of mcopy invocations of each seeder variant
McopyRuns(cloud_init) == IF cloud_init = "Clear" THEN 1 ELSE 3

----------------------------------------------------------------------------
(* VMM command lines *)

NoVmm == [program |-> "", disks |-> <<>>, tap_name |-> <<>>, mac |-> <<>>]

SpawnCh(o, c, n) ==
    [program |-> "./cloud-hypervisor", disks |-> <<o, c>>,
     tap_name |-> n.tap_name, mac |-> n.guest_mac]

\* a QEMU command line that keeps the MAC address of the template
SpawnQemuTemplateMac(o, c, n) ==
    [program |-> "qemu-system-x86_64", disks |-> <<o, c>>,
     tap_name |-> n.tap_name, mac |-> MacPlaceholder]

SpawnQemu(o, c, n) ==
    [program |-> "qemu-system-x86_64", disks |-> <<o, c>>,
     tap_name |-> n.tap_name, mac |-> n.guest_mac]

HypervisorSpawn(kind, o, c, n) ==
    IF kind = "ch" THEN SpawnCh(o, c, n) ELSE SpawnQemu(o, c, n)

----------------------------------------------------------------------------
(* ssh_command *)

DEFAULT_SSH_RETRIES == 6
DEFAULT_SSH_TIMEOUT == 10
BootSettleSecs == 20

\* u8 arithmetic (wrapping, as in a release build)
U8(x) == x % 256

\* a mapping with the kinds of userauth_password and channel_session exchanged
ErrorOfStepSwapped(step) ==
    CASE step = 1 -> "Connection"
      [] step = 2 -> "Handshake"
      [] step = 3 -> "ChannelSession"
      [] step = 4 -> "Authentication"
      [] step = 5 -> "Command"

\* steps of one attempt, in order: 1 connect, 2 handshake, 3 userauth_password,
\* 4 channel_session, 5 exec; map_err of the step that failed
ErrorOfStep(step) ==
    CASE step = 1 -> "Connection"
      [] step = 2 -> "Handshake"
      [] step = 3 -> "Authentication"
      [] step = 4 -> "ChannelSession"
      [] step = 5 -> "Command"

NoResult == [tag |-> "None", kind |-> "", attempt |-> 0, out |-> <<>>]

\* the closure: failAt = 0 when every fallible step succeeded, else the first
\* step that failed; n identifies the attempt that produced the error value
Closure(failAt, n) ==
    IF failAt = 0 THEN [tag |-> "Ok", kind |-> "", attempt |-> n, out |-> <<>>]
    ELSE [tag |-> "Err", kind |-> ErrorOfStep(failAt), attempt |-> n, out |-> <<>>]

\* what can happen after a successful exec: whether read_to_string put output
\* into s, and whether read_to_string, close and wait_close returned Ok
PostExec == [data : BOOLEAN, read_ok : BOOLEAN, close_ok : BOOLEAN, wait_close_ok : BOOLEAN]
PostExecOk == [data |-> TRUE, read_ok |-> TRUE, close_ok |-> TRUE, wait_close_ok |-> TRUE]

\* how many of the three calls after exec returned Err
TailFailures(post) ==
    (IF post.read_ok THEN 0 ELSE 1) + (IF post.close_ok THEN 0 ELSE 1)
    + (IF post.wait_close_ok THEN 0 ELSE 1)

\* channel.read_to_string(&mut s): appends what attempt n's channel delivered
ReadToString(sv, post, n) == IF post.data THEN Append(sv, n) ELSE sv

\* a tail that propagates the Err of close and of wait_close
ClosureTailChecksClose(r, post) ==
    IF post.close_ok /\ post.wait_close_ok THEN r
    ELSE [tag |-> "Err", kind |-> "Command", attempt |-> r.attempt, out |-> <<>>]

\* a tail that propagates the Err of read_to_string
ClosureTailChecksRead(r, post) ==
    IF post.read_ok THEN r
    ELSE [tag |-> "Err", kind |-> "Command", attempt |-> r.attempt, out |-> <<>>]

\* the closure after exec: let _ = read_to_string; let _ = close;
\* let _ = wait_close; Ok(())  -- r is the Ok reached by the steps before
ClosureTail(r, post) == r

\* counter += 2
IncCounterByTwo(c) == U8(c + 2)

\* counter += 1
IncCounter(c) == U8(c + 1)

\* counter > retries
BudgetExhaustedLate(c, retries) == c > retries

\* counter >= retries
BudgetExhausted(c, retries) == c >= retries

\* the product taken with the counter before its increment
BackoffSecsBeforeIncrement(timeout, c) == U8(timeout * (c - 1))

\* a delay that doubles with every failure
BackoffSecsDoubling(timeout, c) == U8(timeout * 2 ^ (c - 1))

\* (timeout * counter).into()
BackoffSecs(timeout, c) == U8(timeout * c)

----------------------------------------------------------------------------
(* Events *)

Ev(e, a, n) == [ev |-> e, a |-> a, b |-> <<>>, n |-> n]
EvB(e, a, b, n) == [ev |-> e, a |-> a, b |-> b, n |-> n]

NoPanic == [at |-> "", kind |-> ""]

----------------------------------------------------------------------------
(* Initial state *)

InitialCounter == 6

NoArgs == [c |-> 0, m |-> <<0, 0, 0, 0, 0, 0>>]
NoSubIn == [text |-> <<>>, net |-> NoNet]
NoSubOut == [done |-> FALSE, text |-> <<>>]

\* the state of the process before any test has started
BootInit ==
    /\ COUNTER = InitialCounter
    /\ issued = << >>
    /\ pc = "idle"
    /\ test = NoTest
    /\ tmp_dir = "none"
    /\ net = NoNet
    /\ rnd = <<0, 0, 0, 0, 0, 0>>
    /\ ci = NoPath
    /\ os = NoPath
    /\ mcopy_left = 0
    /\ tool_failed = FALSE
    /\ tap = "absent"
    /\ child = "none"
    /\ vmm = NoVmm
    /\ reachable = TRUE
    /\ counter = 0
    /\ s = <<>>
    /\ attempts = 0
    /\ failures = 0
    /\ last_fail = 0
    /\ ssh_result = NoResult
    /\ panic = NoPanic
    /\ log = <<>>

Init ==
    /\ BootInit
    /\ fn_in = NoArgs
    /\ fn_out = NoNet
    /\ sub_in = NoSubIn
    /\ sub_out = NoSubOut

----------------------------------------------------------------------------
(* Panics: the stack of test_boot unwinds.  Dropping tmp_dir removes the   *)
(* directory; dropping child (std::process::Child) neither kills nor waits *)
(* for the process; nothing deletes the interface.                         *)

Unwind(stage, kind, lg) ==
    /\ pc' = "panicked"
    /\ panic' = [at |-> stage, kind |-> kind]
    /\ tmp_dir' = IF tmp_dir = "exists" THEN "removed" ELSE tmp_dir
    /\ log' = IF tmp_dir = "exists" THEN Append(lg, Ev("rmdir", <<>>, 0)) ELSE lg

\* exit status as logged: 0 for success, 1 otherwise
StatusCode(st) == IF st = "exit0" THEN 0 ELSE 1

\* Command::output().expect(..): Err only when the program could not be run;
\* the exit status inside the Ok(Output) is not looked at
OutputExpectPanics(st) == st = "spawn_err"

\* Command::status().expect(..) without the assert on success()
StatusExpectOnly(st) == st = "spawn_err"

\* assert!(Command::status().expect(..).success())
StatusAssertPanics(st) == st # "exit0"

----------------------------------------------------------------------------
(* test_boot *)

\* lines 343-345: TempDir::new, COUNTER.fetch_add(1) as u8, GuestNetworkConfig::new;
\* limit caps the number of invocations explored
TestBootBegin(limit, t, m, tmpOk) ==
    /\ pc \in {"idle", "done", "panicked"}
    /\ COUNTER < InitialCounter + limit
    /\ test' = t
    /\ ci' = NoPath /\ os' = NoPath /\ mcopy_left' = 0 /\ tool_failed' = FALSE
    /\ tap' = "absent" /\ child' = "none" /\ vmm' = NoVmm /\ reachable' = TRUE
    /\ counter' = 0 /\ s' = <<>> /\ attempts' = 0 /\ failures' = 0
    /\ last_fail' = 0 /\ ssh_result' = NoResult
    /\ UNCHANGED <<fn_in, fn_out, sub_in, sub_out>>
    /\ IF tmpOk
       THEN /\ tmp_dir' = "exists"
            /\ COUNTER' = COUNTER + 1
            /\ rnd' = m
            /\ net' = GuestNetworkConfigNew(AsU8(COUNTER), m)
            /\ issued' = (COUNTER :> net') @@ issued
            /\ pc' = "ci_files"
            /\ panic' = NoPanic
            /\ log' = <<Ev("tmpdir", <<>>, 0), Ev("identity", net'.tap_name, 0)>>
       ELSE /\ tmp_dir' = "none"
            /\ pc' = "panicked"
            /\ panic' = [at |-> "tmpdir", kind |-> ""]
            /\ log' = <<>>
            /\ net' = NoNet
            /\ UNCHANGED <<COUNTER, rnd, issued>>

\* CloudInit::prepare up to the image tools (lines 69-102 / 122-156):
\* directory creation, copies and the templated file, each .expect()ed
PrepareFiles(ok) ==
    /\ pc = "ci_files"
    /\ IF ok
       THEN /\ pc' = "ci_mkdosfs"
            /\ log' = log \o <<Ev("replace_host_ip", net.host_ip, 0),
                                Ev("replace_guest_ip", net.guest_ip, 0),
                                Ev("replace_mac", net.guest_mac, 0)>>
            /\ UNCHANGED <<panic, tmp_dir>>
       ELSE Unwind("prepare", "io", log)
    /\ UNCHANGED <<fn_in, fn_out, sub_in, sub_out>>
    /\ UNCHANGED <<COUNTER, issued, test, net, rnd, ci, os, mcopy_left, tool_failed,
                   tap, child, vmm, reachable, counter, s, attempts, failures,
                   last_fail, ssh_result>>

\* mkdosfs ... .output().expect(..)  (lines 103-108 / 158-163)
PrepareMkdosfs(st) ==
    /\ pc = "ci_mkdosfs"
    /\ IF OutputExpectPanics(st)
       THEN /\ Unwind("prepare", "mkdosfs", log)
            /\ UNCHANGED <<mcopy_left, tool_failed>>
       ELSE /\ pc' = "ci_mcopy"
            /\ mcopy_left' = McopyRuns(test.cloud_init)
            /\ tool_failed' = (tool_failed \/ st = "nonzero")
            /\ UNCHANGED <<panic, tmp_dir, log>>
    /\ UNCHANGED <<fn_in, fn_out, sub_in, sub_out>>
    /\ UNCHANGED <<COUNTER, issued, test, net, rnd, ci, os,
                   tap, child, vmm, reachable, counter, s, attempts, failures,
                   last_fail, ssh_result>>

\* mcopy ... .output().expect(..), once (Clear) or per file (Ubuntu), and the
\* return of cloudinit_file_path after the last one (lines 109-115 / 165-176)
PrepareMcopy(st) ==
    /\ pc = "ci_mcopy"
    /\ IF OutputExpectPanics(st)
       THEN /\ Unwind("prepare", "mcopy", log)
            /\ UNCHANGED <<mcopy_left, tool_failed, ci>>
       ELSE /\ mcopy_left' = mcopy_left - 1
            /\ tool_failed' = (tool_failed \/ st = "nonzero")
            /\ IF mcopy_left = 1
               THEN /\ ci' = CloudinitFilePath
                    /\ pc' = "os_disk"
                    /\ log' = Append(log, Ev("seed", <<>>, 0))
               ELSE /\ pc' = "ci_mcopy"
                    /\ UNCHANGED <<ci, log>>
            /\ UNCHANGED <<panic, tmp_dir>>
    /\ UNCHANGED <<fn_in, fn_out, sub_in, sub_out>>
    /\ UNCHANGED <<COUNTER, issued, test, net, rnd, os,
                   tap, child, vmm, reachable, counter, s, attempts, failures,
                   last_fail, ssh_result>>

\* prepare_os_disk (lines 180-189)
PrepareOsDisk(ok) ==
    /\ pc = "os_disk"
    /\ IF ok
       THEN /\ os' = DestOsdisk(test.image_name)
            /\ pc' = "tap_add"
            /\ log' = Append(log, Ev("osdisk", <<>>, 0))
            /\ UNCHANGED <<panic, tmp_dir>>
       ELSE /\ Unwind("os_disk", "io", log)
            /\ UNCHANGED os
    /\ UNCHANGED <<fn_in, fn_out, sub_in, sub_out>>
    /\ UNCHANGED <<COUNTER, issued, test, net, rnd, ci, mcopy_left, tool_failed,
                   tap, child, vmm, reachable, counter, s, attempts, failures,
                   last_fail, ssh_result>>

\* the {}/24 argument of `ip addr add`, empty for the other commands
TapAddress(evName) ==
    IF evName = "ip_addr_add" THEN net.host_ip \o <<"/", "2", "4">> ELSE <<>>

\* one privileged step of prepare_tap: run the command, assert its success
TapStep(at, evName, before, after, next, st) ==
    /\ pc = at
    /\ IF StatusAssertPanics(st)
       THEN /\ Unwind("prepare_tap", evName,
                   Append(log, EvB(evName, net.tap_name, TapAddress(evName), StatusCode(st))))
            /\ UNCHANGED tap
       ELSE /\ tap' = IF st = "exit0" THEN after ELSE tap
            /\ pc' = next
            /\ log' = Append(log, EvB(evName, net.tap_name, TapAddress(evName), StatusCode(st)))
            /\ UNCHANGED <<panic, tmp_dir>>
    /\ UNCHANGED <<fn_in, fn_out, sub_in, sub_out>>
    /\ UNCHANGED <<COUNTER, issued, test, net, rnd, ci, os, mcopy_left, tool_failed,
                   child, vmm, reachable, counter, s, attempts, failures,
                   last_fail, ssh_result>>

\* ip tuntap add that goes on to the link-up step, leaving the address step out
PrepareTapAddSkipsAddr(st) ==
    TapStep("tap_add", "ip_tuntap_add", "absent", "created", "tap_up", st)

\* sudo ip tuntap add name {tap_name} mode tap  (lines 192-199)
PrepareTapAdd(st) == TapStep("tap_add", "ip_tuntap_add", "absent", "created", "tap_addr", st)
\* sudo ip addr add {host_ip}/24 dev {tap_name}  (lines 201-208)
PrepareTapAddr(st) == TapStep("tap_addr", "ip_addr_add", "created", "addressed", "tap_up", st)
\* sudo ip link set dev {tap_name} up  (lines 210-214)
PrepareTapUp(st) == TapStep("tap_up", "ip_link_up", "addressed", "up", "spawn", st)

\* let mut child = spawn(&os, &ci, &net)  (line 351)
Spawn(ok, reach) ==
    /\ pc = "spawn"
    /\ IF ok
       THEN /\ child' = "running"
            /\ vmm' = HypervisorSpawn(test.spawn, os, ci, net)
            /\ reachable' = reach
            /\ pc' = "settle"
            /\ log' = Append(log, Ev("spawn", net.tap_name, 0))
            /\ UNCHANGED <<panic, tmp_dir>>
       ELSE /\ Unwind("spawn", "io", log)
            /\ UNCHANGED <<child, vmm, reachable>>
    /\ UNCHANGED <<fn_in, fn_out, sub_in, sub_out>>
    /\ UNCHANGED <<COUNTER, issued, test, net, rnd, ci, os, mcopy_left, tool_failed,
                   tap, counter, s, attempts, failures, last_fail, ssh_result>>

\* thread::sleep(from_secs(20)) and the entry of ssh_command (lines 353, 241-245)
Settle ==
    /\ pc = "settle"
    /\ counter' = 0
    /\ s' = <<>>
    /\ pc' = "ssh_attempt"
    /\ log' = log \o <<Ev("settle", <<>>, BootSettleSecs),
                        Ev("ssh_command", net.guest_ip, 0)>>
    /\ UNCHANGED <<fn_in, fn_out, sub_in, sub_out>>
    /\ UNCHANGED <<COUNTER, issued, test, tmp_dir, net, rnd, ci, os, mcopy_left,
                   tool_failed, tap, child, vmm, reachable, attempts, failures,
                   last_fail, ssh_result, panic>>

\* one iteration of the loop of ssh_command up to the sleep (lines 246-277),
\* and, when ssh_command returns, the .expect() of line 354;
\* post is only looked at when exec succeeded (failAt = 0)
SshAttempt(failAt, post) ==
    /\ pc = "ssh_attempt"
    /\ (reachable \/ failAt = 1)
    /\ LET n == attempts + 1
           r0 == Closure(failAt, n)
           r == IF r0.tag = "Ok" THEN ClosureTail(r0, post) ELSE r0
           lg == IF failAt = 0
                 THEN log \o <<Ev("attempt", <<>>, n), Ev("exec", <<>>, TailFailures(post))>>
                 ELSE Append(log, Ev("attempt", <<>>, n))
       IN /\ attempts' = n
          /\ s' = IF failAt = 0 THEN ReadToString(s, post, n) ELSE s
          /\ IF r.tag = "Ok"
             THEN /\ ssh_result' = [tag |-> "Ok", kind |-> "", attempt |-> n, out |-> s']
                  /\ pc' = "kill"
                  /\ log' = lg
                  /\ UNCHANGED <<counter, failures, last_fail, panic, tmp_dir>>
             ELSE /\ counter' = IncCounter(counter)
                  /\ failures' = failures + 1
                  /\ last_fail' = failAt
                  /\ IF BudgetExhausted(counter', DEFAULT_SSH_RETRIES)
                     THEN /\ ssh_result' = r
                          /\ Unwind("ssh_command", r.kind, lg)
                     ELSE /\ pc' = "ssh_backoff"
                          /\ log' = lg
                          /\ UNCHANGED <<ssh_result, panic, tmp_dir>>
    /\ UNCHANGED <<fn_in, fn_out, sub_in, sub_out>>
    /\ UNCHANGED <<COUNTER, issued, test, net, rnd, ci, os, mcopy_left, tool_failed,
                   tap, child, vmm, reachable>>

\* thread::sleep(Duration::new((timeout * counter).into(), 0))  (line 278)
SshBackoff ==
    /\ pc = "ssh_backoff"
    /\ pc' = "ssh_attempt"
    /\ log' = Append(log, Ev("backoff", <<>>, BackoffSecs(DEFAULT_SSH_TIMEOUT, counter)))
    /\ UNCHANGED <<fn_in, fn_out, sub_in, sub_out>>
    /\ UNCHANGED <<COUNTER, issued, test, tmp_dir, net, rnd, ci, os, mcopy_left,
                   tool_failed, tap, child, vmm, reachable, counter, s, attempts,
                   failures, last_fail, ssh_result, panic>>

\* child.kill().unwrap()  (line 356)
Kill(ok) ==
    /\ pc = "kill"
    /\ IF ok
       THEN /\ child' = "killed"
            /\ pc' = "wait"
            /\ log' = Append(log, Ev("kill", <<>>, 0))
            /\ UNCHANGED <<panic, tmp_dir>>
       ELSE /\ Unwind("kill", "io", Append(log, Ev("kill", <<>>, 1)))
            /\ UNCHANGED child
    /\ UNCHANGED <<fn_in, fn_out, sub_in, sub_out>>
    /\ UNCHANGED <<COUNTER, issued, test, net, rnd, ci, os, mcopy_left, tool_failed,
                   tap, vmm, reachable, counter, s, attempts, failures,
                   last_fail, ssh_result>>

\* child.wait().unwrap()  (line 357)
Wait(ok) ==
    /\ pc = "wait"
    /\ IF ok
       THEN /\ child' = "reaped"
            /\ pc' = "cleanup_tap"
            /\ log' = Append(log, Ev("wait", <<>>, 0))
            /\ UNCHANGED <<panic, tmp_dir>>
       ELSE /\ Unwind("wait", "io", Append(log, Ev("wait", <<>>, 1)))
            /\ UNCHANGED child
    /\ UNCHANGED <<fn_in, fn_out, sub_in, sub_out>>
    /\ UNCHANGED <<COUNTER, issued, test, net, rnd, ci, os, mcopy_left, tool_failed,
                   tap, vmm, reachable, counter, s, attempts, failures,
                   last_fail, ssh_result>>

\* cleanup_tap(&net) and the return of test_boot, which drops tmp_dir
\* (lines 217-226, 359-360)
CleanupTap(st) ==
    /\ pc = "cleanup_tap"
    /\ IF StatusAssertPanics(st)
       THEN /\ Unwind("cleanup_tap", "ip_tuntap_del",
                      Append(log, Ev("ip_tuntap_del", net.tap_name, StatusCode(st))))
            /\ UNCHANGED tap
       ELSE /\ tap' = IF st = "exit0" THEN "deleted" ELSE tap
            /\ pc' = "done"
            /\ tmp_dir' = "removed"
            /\ log' = log \o <<Ev("ip_tuntap_del", net.tap_name, StatusCode(st)),
                                Ev("rmdir", <<>>, 0)>>
            /\ UNCHANGED panic
    /\ UNCHANGED <<fn_in, fn_out, sub_in, sub_out>>
    /\ UNCHANGED <<COUNTER, issued, test, net, rnd, ci, os, mcopy_left, tool_failed,
                   child, vmm, reachable, counter, s, attempts, failures,
                   last_fail, ssh_result>>

----------------------------------------------------------------------------
(* Specifications *)

ToolOutcomes == {"exit0", "nonzero", "spawn_err"}
FailSteps == 0..5

\* outcomes of gen::<[u8; 6]>() explored by Spec
SampleDraws == { <<0, 0, 0, 0, 0, 0>>, <<255, 171, 205, 239, 1, 35>> }

Next ==
    \/ \E t \in Tests, m \in SampleDraws, ok \in BOOLEAN : TestBootBegin(MaxRuns, t, m, ok)
    \/ \E ok \in BOOLEAN : PrepareFiles(ok)
    \/ \E st \in ToolOutcomes : PrepareMkdosfs(st)
    \/ \E st \in ToolOutcomes : PrepareMcopy(st)
    \/ \E ok \in BOOLEAN : PrepareOsDisk(ok)
    \/ \E st \in ToolOutcomes : PrepareTapAdd(st)
    \/ \E st \in ToolOutcomes : PrepareTapAddr(st)
    \/ \E st \in ToolOutcomes : PrepareTapUp(st)
    \/ \E ok \in BOOLEAN, reach \in BOOLEAN : Spawn(ok, reach)
    \/ Settle
    \/ \E f \in FailSteps, post \in PostExec : SshAttempt(f, post)
    \/ SshBackoff
    \/ \E ok \in BOOLEAN : Kill(ok)
    \/ \E ok \in BOOLEAN : Wait(ok)
    \/ \E st \in ToolOutcomes : CleanupTap(st)

Spec == Init /\ [][Next]_vars

----------------------------------------------------------------------------
(* The environment of a run in which the host-side steps succeed and the   *)
(* guest either accepts the login or refuses the connection.  Under it the *)
(* process can go through many test cases, far enough for the value drawn  *)
(* from COUNTER to exceed what a u8 holds.                                 *)

IdTest == [image_name |-> BIONIC_IMAGE_NAME, cloud_init |-> "Ubuntu", spawn |-> "qemu"]
IdDraw == <<255, 171, 205, 239, 1, 35>>

NextId ==
    \/ TestBootBegin(MaxDraws, IdTest, IdDraw, TRUE)
    \/ PrepareFiles(TRUE)
    \/ PrepareMkdosfs("exit0")
    \/ PrepareMcopy("exit0")
    \/ PrepareOsDisk(TRUE)
    \/ PrepareTapAdd("exit0")
    \/ PrepareTapAddr("exit0")
    \/ PrepareTapUp("exit0")
    \/ Spawn(TRUE, TRUE)
    \/ Settle
    \/ \E f \in {0, 1} : SshAttempt(f, PostExecOk)
    \/ SshBackoff
    \/ Kill(TRUE)
    \/ Wait(TRUE)
    \/ CleanupTap("exit0")

SpecId == Init /\ [][NextId]_vars

----------------------------------------------------------------------------
(* GuestNetworkConfig::new applied on its own to a counter and a draw of   *)
(* the random source.                                                      *)

RandBytes == {0, 1, 46, 255}
NewCounters == {0, 6, 9, 10, 99, 100, 255}

InitNew ==
    /\ BootInit
    /\ fn_in \in [c : NewCounters, m : [1..6 -> RandBytes]]
    /\ fn_out = NoNet
    /\ sub_in = NoSubIn
    /\ sub_out = NoSubOut

ApplyNew ==
    /\ fn_out = NoNet
    /\ fn_out' = GuestNetworkConfigNew(fn_in.c, fn_in.m)
    /\ UNCHANGED <<fn_in, sub_in, sub_out>>
    /\ UNCHANGED boot_vars

NextNew == ApplyNew

SpecNew == InitNew /\ [][NextNew]_vars

----------------------------------------------------------------------------
(* The substitution applied on its own to a template text and an identity. *)
(* The template files are not part of the source; templates are built from *)
(* the placeholders, placeholders followed by a blank, fragments that      *)
(* continue a placeholder, and filler.                                     *)

TemplatePieces ==
    { HostIpPlaceholder,
      HostIpPlaceholder \o <<" ">>,
      GuestIpPlaceholder \o <<" ">>,
      MacPlaceholder \o <<" ">>,
      <<"9", "2", ".", "1", "6", "8", ".", "2", ".", "2">>,
      <<"6", "8", ".", "2", ".", "2">>,
      <<"2", ":", "3", "4", ":", "5", "6", ":", "7", "8", ":", "9", "0", ":", "a", "b">>,
      <<"x">> }

RECURSIVE Flatten(_)
Flatten(ps) == IF ps = <<>> THEN <<>> ELSE Head(ps) \o Flatten(Tail(ps))

Templates ==
    { Flatten(ps) : ps \in UNION { [1..k -> TemplatePieces] : k \in 0..MaxPieces } }

SubCounters == {2, 6, 192}

InitSub ==
    /\ BootInit
    /\ fn_in = NoArgs
    /\ fn_out = NoNet
    /\ sub_in \in [text : Templates,
                    net : {GuestNetworkConfigNew(c, IdDraw) : c \in SubCounters}]
    /\ sub_out = NoSubOut

ApplySub ==
    /\ ~sub_out.done
    /\ sub_out' = [done |-> TRUE, text |-> Substitute(sub_in.text, sub_in.net)]
    /\ UNCHANGED <<fn_in, fn_out, sub_in>>
    /\ UNCHANGED boot_vars

NextSub == ApplySub

SpecSub == InitSub /\ [][NextSub]_vars

----------------------------------------------------------------------------
(* Scheduling: test_boot is sequential code whose blocking calls return,   *)
(* so a test case that can take its next step eventually takes it.         *)

TestStep ==
    \/ \E ok \in BOOLEAN : PrepareFiles(ok)
    \/ \E st \in ToolOutcomes : PrepareMkdosfs(st)
    \/ \E st \in ToolOutcomes : PrepareMcopy(st)
    \/ \E ok \in BOOLEAN : PrepareOsDisk(ok)
    \/ \E st \in ToolOutcomes : PrepareTapAdd(st)
    \/ \E st \in ToolOutcomes : PrepareTapAddr(st)
    \/ \E st \in ToolOutcomes : PrepareTapUp(st)
    \/ \E ok \in BOOLEAN, reach \in BOOLEAN : Spawn(ok, reach)
    \/ Settle
    \/ \E f \in FailSteps, post \in PostExec : SshAttempt(f, post)
    \/ SshBackoff
    \/ \E ok \in BOOLEAN : Kill(ok)
    \/ \E ok \in BOOLEAN : Wait(ok)
    \/ \E st \in ToolOutcomes : CleanupTap(st)

LiveSpec == Init /\ [][Next]_vars /\ WF_vars(TestStep)

----------------------------------------------------------------------------
(* Properties *)

\* events of one kind, in order
Events(evName) == SelectSeq(log, LAMBDA e : e.ev = evName)
\* events of one kind whose command succeeded
Succeeded(evName) == SelectSeq(log, LAMBDA e : e.ev = evName /\ e.n = 0)
\* position in the log of the first event of one kind (0 when there is none)
PosOf(evName) ==
    IF \E i \in 1..Len(log) : log[i].ev = evName
    THEN CHOOSE i \in 1..Len(log) :
             log[i].ev = evName /\ \A j \in 1..(i - 1) : log[j].ev # evName
    ELSE 0
\* the test case has ended: test_boot returned or panicked
Completed == pc \in {"done", "panicked"}
\* the kinds of SSHCommandError, by the step that fails
KindNames == <<"Connection", "Handshake", "Authentication", "ChannelSession", "Command">>

\* C1: when a test case has ended after spawning a VMM, the VMM was killed and
\* then waited on, whatever ended the test case.
C1_VmmKilledAndWaited ==
    (Completed /\ Len(Events("spawn")) > 0) =>
        \E i, j \in 1..Len(log) :
            /\ i < j
            /\ log[i] = Ev("kill", <<>>, 0)
            /\ log[j] = Ev("wait", <<>>, 0)

\* C2: ssh_command never makes more than DEFAULT_SSH_RETRIES attempts; it returns
\* after exactly one attempt, with success, when the first attempt succeeds; it
\* returns an error after exactly DEFAULT_SSH_RETRIES attempts when all fail.
C2_AttemptCount ==
    /\ attempts <= DEFAULT_SSH_RETRIES
    /\ (ssh_result.tag # "None" /\ failures = 0) =>
           (attempts = 1 /\ ssh_result.tag = "Ok")
    /\ (ssh_result.tag # "None" /\ failures = attempts) =>
           (attempts = DEFAULT_SSH_RETRIES /\ ssh_result.tag = "Err")
    /\ ssh_result.tag = "Err" => (failures = attempts /\ attempts = DEFAULT_SSH_RETRIES)
    /\ (pc \in {"ssh_attempt", "ssh_backoff"} /\ failures = attempts) =>
           ssh_result.tag = "None"

C2_Witness ==
    ssh_result.tag = "Err" /\ attempts = 6 /\ Len(Events("attempt")) = 6

\* C3: every sleep of ssh_command directly follows failed attempt n, lasts
\* 10 * n seconds, for n in 1..5, and the u8 product does not wrap.
C3_LinearBackoff ==
    \A i \in 1..Len(log) :
        log[i].ev = "backoff" =>
            /\ i > 1
            /\ log[i - 1].ev = "attempt"
            /\ log[i - 1].n \in 1..(DEFAULT_SSH_RETRIES - 1)
            /\ log[i].n = 10 * log[i - 1].n
            /\ DEFAULT_SSH_TIMEOUT * log[i - 1].n < 256
            /\ (i < Len(log) => log[i + 1] = Ev("attempt", <<>>, log[i - 1].n + 1))

C3_Witness ==
    /\ Len(Events("backoff")) = 5
    /\ Events("backoff")[5].n = 50

\* C4: an error returned by ssh_command is the error value of the last, sixth,
\* attempt and its kind names the step at which that attempt failed; the panic
\* of test_boot carries that kind.
C4_LastErrorReturned ==
    ssh_result.tag = "Err" =>
        /\ ssh_result.attempt = attempts
        /\ attempts = DEFAULT_SSH_RETRIES
        /\ last_fail \in 1..5
        /\ ssh_result.kind = KindNames[last_fail]
        /\ panic = [at |-> "ssh_command", kind |-> KindNames[last_fail]]

C4_Witness ==
    ssh_result.tag = "Err" /\ last_fail = 3 /\ ssh_result.attempt = 6

\* C5: with a guest that never accepts a connection, a test case that has
\* spawned its VMM makes at most DEFAULT_SSH_RETRIES attempts and eventually
\* ends with a panic carrying a Connection error.
C5_UnreachableTerminates ==
    /\ []((~reachable) => (attempts <= DEFAULT_SSH_RETRIES
                             /\ Len(Events("backoff")) < DEFAULT_SSH_RETRIES))
    /\ ((pc = "settle" /\ ~reachable)
          ~> (pc = "panicked" /\ panic = [at |-> "ssh_command", kind |-> "Connection"]))

C5_Witness ==
    /\ ~reachable
    /\ pc = "panicked"
    /\ panic = [at |-> "ssh_command", kind |-> "Connection"]
    /\ attempts = 6

\* C6: when test_boot has returned, exactly one interface was created, under the
\* name of the identity, and deleted afterwards under the same name; exactly
\* one VMM was spawned and killed afterwards; ssh_command returned Ok.
C6_SuccessfulRun ==
    pc = "done" =>
        /\ Len(Events("ip_tuntap_add")) = 1
        /\ Len(Succeeded("ip_tuntap_add")) = 1
        /\ Len(Events("ip_tuntap_del")) = 1
        /\ Len(Succeeded("ip_tuntap_del")) = 1
        /\ Events("ip_tuntap_add")[1].a = net.tap_name
        /\ Events("ip_tuntap_del")[1].a = Events("ip_tuntap_add")[1].a
        /\ Len(Events("spawn")) = 1
        /\ Len(Succeeded("kill")) = 1
        /\ PosOf("ip_tuntap_add") < PosOf("spawn")
        /\ PosOf("spawn") < PosOf("kill")
        /\ PosOf("kill") < PosOf("ip_tuntap_del")
        /\ ssh_result.tag = "Ok"
        /\ panic = NoPanic
        /\ tap = "deleted"
        /\ child = "reaped"

C6_Witness ==
    pc = "done" /\ test.cloud_init = "Ubuntu" /\ ssh_result.tag = "Ok"

\* the /24 network of an address: the address without its last component
Subnet(ip) == SubSeq(ip, 1, Len(ip) - 2)

\* two identities share their subnet or their interface name
Collide(a, b) ==
    \/ Subnet(a.host_ip) = Subnet(b.host_ip)
    \/ Subnet(a.guest_ip) = Subnet(b.guest_ip)
    \/ a.host_ip = b.host_ip
    \/ a.guest_ip = b.guest_ip
    \/ a.tap_name = b.tap_name

HexValue(ch) == (CHOOSE i \in 1..16 : HexDigits[i] = ch) - 1

\* the six octets written in a colon-separated MAC string
MacOctets(mac) ==
    [i \in 1..6 |-> 16 * HexValue(mac[3 * i - 2]) + HexValue(mac[3 * i - 1])]

\* C8: the MAC of a new identity is six two-digit octets separated by colons;
\* its first octet is 0x2e, with bit 1 set and bit 0 clear, and octets two to
\* six are the random bytes that were drawn.
C8_MacOctets ==
    fn_out # NoNet =>
        /\ Len(fn_out.guest_mac) = 17
        /\ \A i \in 1..5 : fn_out.guest_mac[3 * i] = ":"
        /\ \A i \in 1..17 : i % 3 # 0 => fn_out.guest_mac[i] \in {HexDigits[k] : k \in 1..16}
        /\ LET o == MacOctets(fn_out.guest_mac)
           IN /\ o[1] = 46
              /\ (o[1] \div 2) % 2 = 1
              /\ o[1] % 2 = 0
              /\ \A i \in 2..6 : o[i] = fn_in.m[i]

C8_Witness ==
    /\ fn_out # NoNet
    /\ fn_in.m = <<255, 1, 46, 255, 0, 1>>
    /\ fn_in.c = 255

\* C10: once mkdosfs or mcopy has exited non-zero in a test case, prepare
\* returns no image path and no VMM is launched in that test case.
C10_ToolFailureFatal ==
    tool_failed => (ci = NoPath /\ child = "none" /\ Len(Events("spawn")) = 0)

\* the text in which every placeholder occurrence found in one left-to-right
\* pass over the template is replaced by the identity's value, and every other
\* character is copied
RECURSIVE SimultaneousFrom(_, _, _)
SimultaneousFrom(text, i, network) ==
    IF i > Len(text) THEN <<>>
    ELSE IF MatchesAt(text, i, HostIpPlaceholder)
         THEN network.host_ip
              \o SimultaneousFrom(text, i + Len(HostIpPlaceholder), network)
    ELSE IF MatchesAt(text, i, GuestIpPlaceholder)
         THEN network.guest_ip
              \o SimultaneousFrom(text, i + Len(GuestIpPlaceholder), network)
    ELSE IF MatchesAt(text, i, MacPlaceholder)
         THEN network.guest_mac
              \o SimultaneousFrom(text, i + Len(MacPlaceholder), network)
    ELSE <<text[i]>> \o SimultaneousFrom(text, i + 1, network)

\* no occurrence of the host-IP placeholder is directly followed by a digit
HostPlaceholderDelimited(text) ==
    \A i \in 1..Len(text) :
        MatchesAt(text, i, HostIpPlaceholder) =>
            \/ i + Len(HostIpPlaceholder) > Len(text)
            \/ text[i + Len(HostIpPlaceholder)] \notin {DecDigits[k] : k \in 1..10}

\* C12 (as stated): for every template and identity the three successive
\* replacements give the text of the simultaneous replacement.
C12_SequentialIsSimultaneous ==
    sub_out.done => sub_out.text = SimultaneousFrom(sub_in.text, 1, sub_in.net)

\* C12 (amended): for every identity and every template in which no occurrence
\* of the host-IP placeholder is directly followed by a digit, the three
\* successive replacements give the text of the simultaneous replacement.
C12_SequentialIsSimultaneousDelimited ==
    (sub_out.done /\ HostPlaceholderDelimited(sub_in.text)) =>
        sub_out.text = SimultaneousFrom(sub_in.text, 1, sub_in.net)

C12_Witness ==
    /\ sub_out.done
    /\ sub_in.text = HostIpPlaceholder \o <<" ">> \o GuestIpPlaceholder \o <<" ">>
                     \o MacPlaceholder \o <<" ">>
    /\ sub_in.net.host_ip = Prefix192168 \o <<"1", "9", "2", ".", "1">>
    /\ sub_out.text = sub_in.net.host_ip \o <<" ">> \o sub_in.net.guest_ip \o <<" ">>
                      \o sub_in.net.guest_mac \o <<" ">>

\* the three privileged commands of prepare_tap
TapEvents == {"ip_tuntap_add", "ip_addr_add", "ip_link_up"}

\* C11: prepare_tap runs ip tuntap add, ip addr add {host_ip}/24 and ip link set
\* up in that order, each at most once and each only after the one before it
\* exited zero; a step that did not exit zero ends the test case with nothing
\* run after it but the removal of the temporary directory; a VMM is spawned
\* only after all three exited zero.
C11_TapStepsOrderedAndFatal ==
    /\ \A e \in TapEvents : Len(Events(e)) <= 1
    /\ PosOf("ip_addr_add") > 0 =>
           /\ PosOf("ip_tuntap_add") > 0
           /\ PosOf("ip_tuntap_add") < PosOf("ip_addr_add")
           /\ log[PosOf("ip_tuntap_add")].n = 0
           /\ log[PosOf("ip_addr_add")].b = net.host_ip \o <<"/", "2", "4">>
    /\ PosOf("ip_link_up") > 0 =>
           /\ PosOf("ip_addr_add") > 0
           /\ PosOf("ip_addr_add") < PosOf("ip_link_up")
           /\ log[PosOf("ip_addr_add")].n = 0
    /\ (PosOf("spawn") > 0 \/ child # "none") =>
           /\ PosOf("ip_link_up") > 0
           /\ PosOf("ip_link_up") < PosOf("spawn")
           /\ log[PosOf("ip_link_up")].n = 0
    /\ \A i \in 1..Len(log) :
           (log[i].ev \in TapEvents /\ log[i].n # 0) =>
               /\ pc = "panicked"
               /\ panic.at = "prepare_tap"
               /\ child = "none"
               /\ \A j \in (i + 1)..Len(log) : log[j].ev = "rmdir"

C11_Witness ==
    /\ pc = "panicked"
    /\ Len(Succeeded("ip_tuntap_add")) = 1
    /\ Len(Events("ip_addr_add")) = 1
    /\ Len(Succeeded("ip_addr_add")) = 0
    /\ Len(Events("ip_link_up")) = 0
    /\ child = "none"

\* C13: within one test case there is at most one identity, one seed image, one
\* VMM and one interface, and all of them carry the identity drawn at the start:
\* every ip command names net.tap_name, the address added is net.host_ip/24, the
\* seed's template is filled from net, the VMM is started on net.tap_name with
\* net.guest_mac, and ssh_command is given net.guest_ip.
C13_OneIdentityShared ==
    /\ \A e \in {"identity", "seed", "spawn", "ssh_command", "ip_tuntap_del"} \cup TapEvents :
           Len(Events(e)) <= 1
    /\ net # NoNet => net = issued[COUNTER - 1]
    /\ \A i \in 1..Len(log) :
           /\ log[i].ev \in TapEvents \cup {"identity", "spawn", "ip_tuntap_del"} =>
                  log[i].a = net.tap_name
           /\ log[i].ev = "ip_addr_add" => log[i].b = net.host_ip \o <<"/", "2", "4">>
           /\ log[i].ev = "replace_host_ip" => log[i].a = net.host_ip
           /\ log[i].ev = "replace_guest_ip" => log[i].a = net.guest_ip
           /\ log[i].ev = "replace_mac" => log[i].a = net.guest_mac
           /\ log[i].ev = "ssh_command" => log[i].a = net.guest_ip
    /\ child # "none" =>
           /\ vmm.tap_name = net.tap_name
           /\ vmm.mac = net.guest_mac
           /\ Len(Events("spawn")) = 1
    /\ tap # "absent" => Len(Succeeded("ip_tuntap_add")) = 1

C13_Witness ==
    /\ pc = "done"
    /\ vmm.program = "qemu-system-x86_64"
    /\ vmm.mac = net.guest_mac
    /\ Len(Events("seed")) = 1
    /\ Len(Events("ssh_command")) = 1
    /\ Len(Succeeded("ip_tuntap_del")) = 1
    /\ tap = "deleted"

\* the first event of kind b, when there is one, comes after a first event of kind a
Precedes(a, b) ==
    PosOf(b) > 0 => (PosOf(a) > 0 /\ PosOf(a) < PosOf(b))

\* the stages of test_boot begin in the order of lines 345-354
StagesInOrder ==
    /\ Precedes("identity", "seed")
    /\ Precedes("seed", "osdisk")
    /\ Precedes("osdisk", "ip_tuntap_add")
    /\ Precedes("ip_link_up", "spawn")
    /\ Precedes("spawn", "settle")
    /\ Precedes("settle", "attempt")
    /\ PosOf("settle") > 0 => log[PosOf("settle")].n = BootSettleSecs

\* the VMM is started on the copy in the temporary directory
VmmGivenTempCopy ==
    child # "none" =>
        /\ vmm.disks = <<DestOsdisk(test.image_name), CloudinitFilePath>>
        /\ vmm.disks[1] # SrcOsdisk(test.image_name)

\* C14: the stages identity, seed image, OS disk copy, interface up, spawn,
\* settling sleep, first ssh attempt begin in that order, each only after the
\* one before it completed successfully (for the seed image: every image tool
\* exited zero), and the VMM is given the temporary copy of the OS disk, never
\* the reference image.
C14_StagesInOrderAfterSuccess ==
    /\ StagesInOrder
    /\ VmmGivenTempCopy
    /\ PosOf("seed") > 0 => ~tool_failed

\* cleanup_tap runs only after kill and wait both returned Ok
InterfaceDeletedAfterReap ==
    PosOf("ip_tuntap_del") > 0 =>
        /\ Precedes("kill", "ip_tuntap_del")
        /\ Precedes("wait", "ip_tuntap_del")
        /\ PosOf("kill") < PosOf("wait")
        /\ child = "reaped"

\* the interface is up as long as the child process runs
InterfaceOutlivesVmm ==
    child = "running" => tap = "up"

\* C15: the interface is deleted only after the VMM was killed and waited on,
\* once a VMM was spawned the temporary directory is removed only after the
\* interface was deleted, and the interface exists as long as the VMM runs.
C15_TeardownOrder ==
    /\ InterfaceDeletedAfterReap
    /\ InterfaceOutlivesVmm
    /\ (tmp_dir = "removed" /\ child # "none") => tap = "deleted"

\* C16: once the kill of a spawned VMM was attempted, the wait is performed as
\* well, and when the kill failed the wait and the deletion of the interface
\* are still performed before the test case ends.
C16_KillBestEffort ==
    (Completed /\ PosOf("kill") > 0) =>
        /\ PosOf("wait") > PosOf("kill")
        /\ log[PosOf("kill")].n # 0 => PosOf("ip_tuntap_del") > PosOf("wait")

\* C17: attempts fail only at connect, handshake, authentication, channel open
\* or exec; after an exec that succeeded, whatever read_to_string, close and
\* wait_close returned, the counter is not incremented, no sleep and no further
\* attempt follow, and ssh_command returns Ok.
C17_PostExecFailuresIgnored ==
    /\ failures > 0 => last_fail \in 1..5
    /\ ssh_result.tag = "Err" => PosOf("exec") = 0
    /\ PosOf("exec") > 0 =>
           /\ ssh_result.tag = "Ok"
           /\ counter = attempts - 1
           /\ failures = attempts - 1
           /\ Len(Events("attempt")) = attempts
           /\ \A j \in (PosOf("exec") + 1)..Len(log) :
                  log[j].ev \notin {"attempt", "backoff", "exec"}

C17_Witness ==
    /\ PosOf("exec") > 0
    /\ log[PosOf("exec")].n = 3
    /\ ssh_result.tag = "Ok"
    /\ failures = 2
    /\ counter = 2

\* C18: one call of ssh_command runs the command successfully at most once, no
\* attempt starts after the attempt whose exec succeeded, and the returned
\* string holds nothing but what that attempt's read_to_string delivered.
C18_ExecAtMostOnce ==
    /\ Len(Events("exec")) <= 1
    /\ \A i, j \in 1..Len(log) :
           (log[i].ev = "exec" /\ log[j].ev = "attempt") => j < i
    /\ s \in {<<>>, <<attempts>>}
    /\ s # <<>> => (PosOf("exec") > 0 /\ failures = attempts - 1)
    /\ ssh_result.tag = "Ok" => (ssh_result.out = s /\ Len(Events("exec")) = 1)
    /\ ssh_result.tag = "Err" => s = <<>>

C18_Witness ==
    /\ ssh_result.tag = "Ok"
    /\ attempts = 3
    /\ failures = 2
    /\ ssh_result.out = <<3>>

\* sum of the n fields of a sequence of events
RECURSIVE SumSecs(_)
SumSecs(evs) == IF evs = <<>> THEN 0 ELSE Head(evs).n + SumSecs(Tail(evs))

\* C19: ssh_command sleeps only between a failed attempt and the next attempt:
\* a call that returned Ok after k failed attempts slept k times, a call that
\* returned Err failed DEFAULT_SSH_RETRIES times and slept one time less, for
\* 10+20+30+40+50 seconds in total, and no sleep follows the last attempt.
C19_SleepsBetweenAttemptsOnly ==
    /\ ssh_result.tag = "Ok" => Len(Events("backoff")) = failures
    /\ ssh_result.tag = "Err" =>
           /\ failures = DEFAULT_SSH_RETRIES
           /\ Len(Events("backoff")) = failures - 1
           /\ SumSecs(Events("backoff")) = 10 + 20 + 30 + 40 + 50
    /\ ssh_result.tag # "None" =>
           \A i \in 1..Len(log) :
               log[i].ev = "backoff" =>
                   \E j \in (i + 1)..Len(log) : log[j].ev = "attempt"
    /\ Len(Events("backoff")) <= failures
    /\ SumSecs(Events("backoff")) = 5 * Len(Events("backoff")) * (Len(Events("backoff")) + 1)

C19_Witness ==
    /\ ssh_result.tag = "Err"
    /\ pc = "panicked"
    /\ failures = 6
    /\ Len(Events("backoff")) = 5
    /\ log[Len(log)].ev = "rmdir"
    /\ log[Len(log) - 1].ev = "attempt"

\* C20: the temporary directory with the staged OS disk and the seed image is
\* not removed while the VMM started on those files is still running.
C20_TmpDirOutlivesVmm ==
    tmp_dir = "removed" => child # "running"

====
